---- MODULE Spec2Model ----
(***************************************************************************)
(* Context synchronisation of the conversational gateway: source registry, *)
(* per (source, user) sync state, pack fetcher, merge engine, snapshot     *)
(* store, the per-user orchestrator (SyncContextForUserCommand) and the    *)
(* due-pair sweep (sync_context_all_due_task).                             *)
(*                                                                         *)
(* Times are seconds on one clock.  Python None is NoTime for a time,      *)
(* NoneStr for a string and NoneTok for an ETag (a sequence of tokens, so  *)
(* that quote stripping is computed).  An optional pack is a sequence of   *)
(* length 0 or 1.  A source is the rank of its source_id slug: the order   *)
(* of the integers is the ORDER BY source_id of the registry.              *)
(***************************************************************************)
EXTENDS Integers, Sequences, FiniteSets, TLC

\* ------------------------------------------------------------------ bounds
NumSources == 2
NumUsers == 2
MaxClock == 120
MaxEdits == 1
MaxLimit == 2
MaxCalls == 1
MaxPacks == 2
MaxMergeCalls == 2
MaxSweeps == 2

\* ------------------------------------------------------- program constants
TIMEOUT_SECONDS == 30
SOURCES_PAGE_SYNC == 100
SOURCES_PAGE_DUE == 200
USERS_PAGE_DUE == 1000
POLL_MIN == 60
POLL_MAX == 86400
POLL_DEFAULT == 3600
FACTS_MAX_BYTES == 8 * 1024
RECENTS_MAX_COUNT == 50
POINTERS_MAX_PER_CATEGORY == 100

NoTime == 0 - 1
NoneStr == "<None>"
NoneTok == <<"<None>">>

SourceIds == 1..NumSources
UserIds == 1..NumUsers
Pairs == SourceIds \X UserIds

\* -------------------------------------------------------------- utilities
Min2(a, b) == IF a <= b THEN a ELSE b

Max2(a, b) == IF a >= b THEN a ELSE b

Range(seq) == {seq[i] : i \in 1..Len(seq)}

Take(seq, n) == SubSeq(seq, 1, Min2(n, Len(seq)))

RECURSIVE SortedSeq(_)
\* the elements of a finite set of integers as an ascending sequence
SortedSeq(S) ==
    IF S = {} THEN <<>>
    ELSE LET m == CHOOSE x \in S : \A y \in S : x <= y
         IN <<m>> \o SortedSeq(S \ {m})

RECURSIVE FilterSeq(_, _)
\* the elements of seq that are in the set Keep, in order
FilterSeq(seq, Keep) ==
    IF seq = <<>> THEN <<>>
    ELSE (IF Head(seq) \in Keep THEN <<Head(seq)>> ELSE <<>>)
         \o FilterSeq(Tail(seq), Keep)

\* ------------------------------------------------------------ credentials
\* CredentialService.apply_credentials: the headers with the auth header added,
\* or the ValueError it raises.  cred is what resolution meets: "ok" (a token
\* or field set is there), "no_token" (the M2M provider gave none),
\* "not_found", "missing_field", "unknown_type".
apply_credentials(cred, headers) ==
    CASE cred = "ok" -> [raised |-> NoneStr, headers |-> headers \cup {"Authorization"}]
      [] cred = "no_token" ->
            [raised |-> "Default M2M auth requires an M2M token", headers |-> headers]
      [] cred = "not_found" ->
            [raised |-> "Credential not found", headers |-> headers]
      [] cred = "missing_field" ->
            [raised |-> "Bearer auth requires a token field", headers |-> headers]
      [] OTHER ->
            [raised |-> "not a valid CredentialType", headers |-> headers]

\* ----------------------------------------------------------------- fetcher
\* str.strip('"') on an ETag given as tokens, "Q" being one double quote:
\* every leading and every trailing quote is removed.
RECURSIVE StripLeft(_)
StripLeft(t) == IF t # <<>> /\ Head(t) = "Q" THEN StripLeft(Tail(t)) ELSE t

RECURSIVE StripRight(_)
StripRight(t) ==
    IF t # <<>> /\ t[Len(t)] = "Q" THEN StripRight(SubSeq(t, 1, Len(t) - 1)) ELSE t

StripQuotes(t) == StripRight(StripLeft(t))

\* truthiness of an Optional[str] (None and "" are falsy)
TruthyStr(s) == s # NoneStr /\ s # ""

TruthyTok(t) == t # NoneTok /\ t # <<>>

\* FetchResult(payload, etag, cursor, not_modified, error) with its defaults
FetchResult(payload, etag, cursor, not_modified, error) ==
    [payload |-> payload, etag |-> etag, cursor |-> cursor,
     not_modified |-> not_modified, error |-> error]

\* a request that is never conditional
BuildRequest_unconditional(user_id, state) ==
    [user_id |-> user_id,
     audience |-> "conversa",
     since |-> IF state.exists /\ TruthyStr(state.since_cursor)
               THEN state.since_cursor ELSE NoneStr,
     if_none_match |-> NoneTok]

\* the request ContextPackFetcher.fetch builds from the state row
BuildRequest(user_id, state) ==
    [user_id |-> user_id,
     audience |-> "conversa",
     since |-> IF state.exists /\ TruthyStr(state.since_cursor)
               THEN state.since_cursor ELSE NoneStr,
     if_none_match |-> IF state.exists /\ TruthyTok(state.etag)
                       THEN state.etag ELSE NoneTok]

RECURSIVE FirstCursor(_)
\* the cursor of the first entry of pack.sources that has a truthy one
FirstCursor(infos) ==
    IF infos = <<>> THEN NoneStr
    ELSE IF TruthyStr(Head(infos).cursor) THEN Head(infos).cursor
    ELSE FirstCursor(Tail(infos))

\* ContextPackResponse.to_mergeable_pack
to_mergeable_pack(body, source_id) ==
    [source_id |-> source_id,
     schema_version |-> body.schema_version,
     generated_at |-> body.generated_at,
     facts |-> body.facts,
     recents |-> body.recents,
     pointers |-> body.pointers]

\* ContextPackFetcher.fetch(user_id, source, state) against one exchange x:
\* x.cred is what credential resolution meets, x.net whether the request got
\* an answer, x.status the status, x.body_kind "json_ok" | "not_json" |
\* "bad_schema", x.body the document, x.etag_header the ETag header (<<>>: none).
fetch(user_id, source_id, state, x) ==
    LET auth == apply_credentials(x.cred, {"Accept"})
    IN  IF auth.raised # NoneStr
          THEN FetchResult(<<>>, NoneTok, NoneStr, FALSE, auth.raised)
        ELSE IF x.net # "answered"
          THEN FetchResult(<<>>, NoneTok, NoneStr, FALSE, x.net)
        ELSE IF x.status = 304
          THEN FetchResult(<<>>, IF state.exists THEN state.etag ELSE NoneTok,
                           NoneStr, TRUE, NoneStr)
        ELSE IF x.status # 200
          THEN FetchResult(<<>>, NoneTok, NoneStr, FALSE,
                           IF x.status = 401 THEN "HTTP 401: no body"
                           ELSE "HTTP 500: no body")
        ELSE IF x.body_kind = "not_json"
          THEN FetchResult(<<>>, NoneTok, NoneStr, FALSE, "Invalid JSON")
        ELSE IF x.body_kind = "bad_schema"
          THEN FetchResult(<<>>, NoneTok, NoneStr, FALSE, "Invalid context pack")
        ELSE FetchResult(<<to_mergeable_pack(x.body, source_id)>>,
                         IF x.etag_header # <<>> THEN StripQuotes(x.etag_header)
                         ELSE NoneTok,
                         FirstCursor(x.body.sources),
                         FALSE, NoneStr)

\* the request goes out before the credentials are looked at
requests_get_called_first(x) == TRUE

\* whether fetch reaches requests.get: only past the try block around
\* apply_credentials, whose ValueError returns the error result first
requests_get_called(x) == apply_credentials(x.cred, {"Accept"}).raised = NoneStr

\* ------------------------------------------------------------ merge engine
\* A pack's facts are a function key -> value (strings); its recents a function
\* category -> list of items [isdict, id, val] (id NoneStr: no "id" entry);
\* its pointers a function category -> list of identifier strings.
EmptyMap == [k \in {} |-> <<>>]

\* the fact keys of the model in sorted() order
FactKeyOrder == <<"display_name", "locale", "timezone">>

KeyRank(k) == CHOOSE i \in 1..Len(FactKeyOrder) : FactKeyOrder[i] = k

\* the keys of a facts map as sorted(facts.items()) enumerates them
SortedKeys(facts) == FilterSeq(FactKeyOrder, DOMAIN facts)

RECURSIVE SumBytes(_, _)
SumBytes(facts, keys) ==
    IF keys = {} THEN 0
    ELSE LET k == CHOOSE x \in keys : TRUE
         IN (Len(k) + 2) + 2 + (Len(facts[k]) + 2) + SumBytes(facts, keys \ {k})

\* len(json.dumps(facts).encode("utf-8")) for ASCII string keys and values:
\* braces, "key": "value" entries, ", " between entries
JsonBytes(facts) ==
    LET n == Cardinality(DOMAIN facts)
    IN 2 + SumBytes(facts, DOMAIN facts) + (IF n > 1 THEN 2 * (n - 1) ELSE 0)

RECURSIVE MergeFactsLoop(_, _)
MergeFactsLoop(merged, packs) ==
    IF packs = <<>> THEN merged
    ELSE LET f == Head(packs).facts
         IN MergeFactsLoop(
                [k \in DOMAIN merged \cup DOMAIN f |->
                    IF k \in DOMAIN merged THEN merged[k] ELSE f[k]],
                Tail(packs))

\* _merge_facts without the "not in merged" test: the last pack wins
merge_facts_last_wins(packs) ==
    MergeFactsLoop(EmptyMap, [i \in 1..Len(packs) |-> packs[Len(packs) + 1 - i]])

\* ContextMergeService._merge_facts: the first pack that defines a key wins
merge_facts(packs) == MergeFactsLoop(EmptyMap, packs)

\* whether _merge_recents appends item to existing_items
RecentIsNew(existing, item) ==
    IF item.isdict /\ TruthyStr(item.id)
    THEN ~ \E i \in 1..Len(existing) :
             existing[i].isdict /\ existing[i].id = item.id
    ELSE ~ \E i \in 1..Len(existing) : existing[i] = item

\* one iteration of the loop of _merge_recents over a list
AppendRecent(existing, item) ==
    IF RecentIsNew(existing, item) THEN Append(existing, item) ELSE existing

RECURSIVE AppendRecents(_, _)
\* the loop of _merge_recents over one list, left to right. The list is walked
\* half by half, the first half's result being computed before the second half
\* starts, which keeps the evaluation shallow.
AppendRecents(existing, items) ==
    IF items = <<>> THEN existing
    ELSE IF Len(items) = 1 THEN AppendRecent(existing, items[1])
    ELSE CHOOSE out \in
            UNION {{AppendRecents(mid, back) : mid \in {AppendRecents(existing, front)}} :
                     front \in {SubSeq(items, 1, Len(items) \div 2)},
                     back \in {SubSeq(items, Len(items) \div 2 + 1, Len(items))}} : TRUE

RECURSIVE MergeRecentsLoop(_, _)
MergeRecentsLoop(merged, packs) ==
    IF packs = <<>> THEN merged
    ELSE LET r == Head(packs).recents
         IN MergeRecentsLoop(
                [c \in DOMAIN merged \cup DOMAIN r |->
                    IF c \in DOMAIN r
                    THEN AppendRecents(IF c \in DOMAIN merged THEN merged[c] ELSE <<>>,
                                       r[c])
                    ELSE merged[c]],
                Tail(packs))

\* ContextMergeService._merge_recents: union per category, deduplicated by id
merge_recents(packs) == MergeRecentsLoop(EmptyMap, packs)

\* the iteration without the test of the length: no cap
AppendPointer_uncapped(existing, id) ==
    IF id \notin Range(existing) THEN Append(existing, id) ELSE existing

\* one iteration of the loop of _merge_pointers over a list
AppendPointer(existing, id) ==
    IF id \notin Range(existing) /\ Len(existing) < POINTERS_MAX_PER_CATEGORY
    THEN Append(existing, id) ELSE existing

RECURSIVE AppendPointers(_, _)
\* the loop of _merge_pointers over one list, left to right (walked half by
\* half, as AppendRecents)
AppendPointers(existing, ids) ==
    IF ids = <<>> THEN existing
    ELSE IF Len(ids) = 1 THEN AppendPointer(existing, ids[1])
    ELSE CHOOSE out \in
            UNION {{AppendPointers(mid, back) : mid \in {AppendPointers(existing, front)}} :
                     front \in {SubSeq(ids, 1, Len(ids) \div 2)},
                     back \in {SubSeq(ids, Len(ids) \div 2 + 1, Len(ids))}} : TRUE

RECURSIVE MergePointersLoop(_, _)
MergePointersLoop(merged, packs) ==
    IF packs = <<>> THEN merged
    ELSE LET q == Head(packs).pointers
         IN MergePointersLoop(
                [c \in DOMAIN merged \cup DOMAIN q |->
                    IF c \in DOMAIN q
                    THEN AppendPointers(IF c \in DOMAIN merged THEN merged[c] ELSE <<>>,
                                        q[c])
                    ELSE merged[c]],
                Tail(packs))

\* ContextMergeService._merge_pointers: union per category, deduplicated, capped
merge_pointers(packs) == MergePointersLoop(EmptyMap, packs)

RECURSIVE TruncateLoop(_, _, _, _)
TruncateLoop(result, facts, keys, max_bytes) ==
    IF keys = <<>> THEN result
    ELSE LET k == Head(keys)
             candidate == [x \in DOMAIN result \cup {k} |->
                              IF x = k THEN facts[k] ELSE result[x]]
         IN IF JsonBytes(candidate) <= max_bytes
            THEN TruncateLoop(candidate, facts, Tail(keys), max_bytes)
            ELSE result

\* _truncate_facts over facts.items() without sorted(): the keys in another
\* order, here the reverse
truncate_facts_unsorted(facts, max_bytes) ==
    TruncateLoop(EmptyMap, facts,
                 [i \in 1..Len(SortedKeys(facts)) |->
                     SortedKeys(facts)[Len(SortedKeys(facts)) + 1 - i]],
                 max_bytes)

\* ContextMergeService._truncate_facts: keys in sorted order until one does not fit
truncate_facts(facts, max_bytes) ==
    TruncateLoop(EmptyMap, facts, SortedKeys(facts), max_bytes)

\* ContextMergeService._apply_facts_cap
apply_facts_cap(facts) ==
    IF JsonBytes(facts) > FACTS_MAX_BYTES
    THEN truncate_facts(facts, FACTS_MAX_BYTES)
    ELSE facts

\* ContextMergeService._apply_recents_cap
apply_recents_cap(recents) ==
    [c \in DOMAIN recents |->
        IF Len(recents[c]) > RECENTS_MAX_COUNT
        THEN Take(recents[c], RECENTS_MAX_COUNT) ELSE recents[c]]

\* ContextMergeService._empty_payload (generated_at is the wall clock)
empty_payload(now) ==
    [schema_version |-> "1.0", generated_at |-> now,
     facts |-> EmptyMap, recents |-> EmptyMap, pointers |-> EmptyMap]

\* generated_at taken from packs[0], as schema_version is
FirstGeneratedAt(packs) == packs[1].generated_at

RECURSIVE MaxGeneratedAt(_)
MaxGeneratedAt(packs) ==
    IF Len(packs) = 1 THEN packs[1].generated_at
    ELSE Max2(Head(packs).generated_at, MaxGeneratedAt(Tail(packs)))

\* ContextMergeService.merge_packs
merge_packs(packs, now) ==
    IF packs = <<>> THEN empty_payload(now)
    ELSE [schema_version |-> packs[1].schema_version,
          generated_at |-> MaxGeneratedAt(packs),
          facts |-> apply_facts_cap(merge_facts(packs)),
          recents |-> apply_recents_cap(merge_recents(packs)),
          pointers |-> merge_pointers(packs)]

VARIABLES
    clock,      \* wall clock, seconds
    registry,   \* context_sources: source -> [enabled, deleted, poll_interval_seconds]
    rows,       \* context_source_state: pair -> row (exists = FALSE: no row)
    snapshots,  \* context_snapshots: user -> sequence of snapshots, in insertion order
    run,        \* the orchestrator invocation in progress (or the last one finished)
    nedits,     \* number of registry changes made
    sweep,      \* the last sync_context_all_due_task call: its pairs, tasks and result
    queue,      \* pending sync_context_for_user_task messages: user -> count
    crashed,    \* users whose per-user task ended with an unhandled exception
    table,      \* context_source_state as the database holds it: a list of rows
    procs,      \* workers calling the state service concurrently: worker -> locals
    merge       \* a list of packs handed to merge_packs and the payloads returned

vars == <<clock, registry, rows, snapshots, run, nedits, sweep, queue, crashed,
          table, procs, merge>>

\* ---------------------------------------------------------------- registry
\* the poll intervals the model registers sources with
PollChoices == {POLL_MIN, POLL_DEFAULT}

\* rows a query on a soft-deletable table sees
NotDeleted(reg) == {s \in SourceIds : ~reg[s].deleted}

\* the registry enumerated from the highest source id down
get_context_sources_descending(reg, skip, limit) ==
    LET asc == SortedSeq(NotDeleted(reg))
        all == [i \in 1..Len(asc) |-> asc[Len(asc) + 1 - i]]
    IN SubSeq(all, skip + 1, Min2(Len(all), skip + limit))

\* ContextSourceService.get_context_sources: ORDER BY source_id OFFSET LIMIT
get_context_sources(reg, skip, limit) ==
    LET all == SortedSeq(NotDeleted(reg))
    IN SubSeq(all, skip + 1, Min2(Len(all), skip + limit))

\* UserService.get_users
get_users(skip, limit) ==
    LET all == SortedSeq(UserIds)
    IN SubSeq(all, skip + 1, Min2(Len(all), skip + limit))

\* ContextSourceService.update_context_source, for the fields the sync reads
\* (enabled: "None" leaves it; poll: NoTime leaves it)
update_context_source(source, enabled, poll) ==
    [source EXCEPT
        !.enabled = IF enabled = "None" THEN @ ELSE enabled = "True",
        !.poll_interval_seconds = IF poll = NoTime THEN @ ELSE poll]

\* SoftDeleteService.delete_record
delete_record(source) == [source EXCEPT !.deleted = TRUE]

\* ------------------------------------------------------------- sync state
NoRow ==
    [exists |-> FALSE, last_success_at |-> NoTime, last_attempt_at |-> NoTime,
     last_error |-> NoneStr, etag |-> NoneTok, since_cursor |-> NoneStr,
     next_run_at |-> NoTime]

\* ContextSourceState(source_id, user_id): every other column null
NewRow == [NoRow EXCEPT !.exists = TRUE]

\* ContextSourceStateService.get_or_create_state, as the table after the call
get_or_create_state(rws, pair) ==
    IF rws[pair].exists THEN rws ELSE [rws EXCEPT ![pair] = NewRow]

\* an update_state that assigns last_error whatever was passed
update_state_assigning_last_error(state, last_success_at, last_attempt_at, last_error, etag, since_cursor, next_run_at) ==
    [state EXCEPT
        !.last_success_at = IF last_success_at # NoTime THEN last_success_at ELSE @,
        !.last_attempt_at = IF last_attempt_at # NoTime THEN last_attempt_at ELSE @,
        !.last_error = last_error,
        !.etag = IF etag # NoneTok THEN etag ELSE @,
        !.since_cursor = IF since_cursor # NoneStr THEN since_cursor ELSE @,
        !.next_run_at = IF next_run_at # NoTime THEN next_run_at ELSE @]

\* ContextSourceStateService.update_state: only the non-None arguments are set
update_state(state, last_success_at, last_attempt_at, last_error, etag, since_cursor, next_run_at) ==
    [state EXCEPT
        !.last_success_at = IF last_success_at # NoTime THEN last_success_at ELSE @,
        !.last_attempt_at = IF last_attempt_at # NoTime THEN last_attempt_at ELSE @,
        !.last_error = IF last_error # NoneStr THEN last_error ELSE @,
        !.etag = IF etag # NoneTok THEN etag ELSE @,
        !.since_cursor = IF since_cursor # NoneStr THEN since_cursor ELSE @,
        !.next_run_at = IF next_run_at # NoTime THEN next_run_at ELSE @]

\* the due test of get_due_user_source_pairs for one pair
IsDue(state, now) ==
    IF ~state.exists THEN TRUE
    ELSE state.next_run_at # NoTime /\ state.next_run_at <= now

RECURSIVE DueLoop(_, _, _, _, _)
\* the nested loops over sources x users, the result so far in result
DueLoop(result, candidates, rws, now, limit) ==
    IF candidates = <<>> THEN result
    ELSE LET pair == Head(candidates)
         IN IF pair \in Range(result)
              THEN DueLoop(result, Tail(candidates), rws, now, limit)
            ELSE IF IsDue(rws[pair], now)
              THEN IF Len(result) + 1 >= limit
                     THEN Append(result, pair)
                   ELSE DueLoop(Append(result, pair), Tail(candidates), rws, now, limit)
            ELSE DueLoop(result, Tail(candidates), rws, now, limit)

RECURSIVE CrossProduct(_, _)
\* for source in sources: for user in users
CrossProduct(sources, users) ==
    IF sources = <<>> THEN <<>>
    ELSE [i \in 1..Len(users) |-> <<Head(sources), users[i]>>]
         \o CrossProduct(Tail(sources), users)

\* ContextSourceStateService.get_due_user_source_pairs
get_due_user_source_pairs(reg, rws, now, limit) ==
    LET sources == FilterSeq(get_context_sources(reg, 0, SOURCES_PAGE_DUE),
                             {s \in SourceIds : reg[s].enabled /\ ~reg[s].deleted})
        users == get_users(0, USERS_PAGE_DUE)
    IN DueLoop(<<>>, CrossProduct(sources, users), rws, now, limit)

\* ----------------------------------------------------------- snapshot store
\* ContextSnapshotService.create_snapshot, as the user's snapshots after it
create_snapshot(snaps, schema_version, generated_at, payload, now) ==
    Append(snaps, [schema_version |-> schema_version, generated_at |-> generated_at,
                   payload |-> payload, created_at |-> now])

\* the rows of context_snapshots: the snapshots of every user in one table,
\* each with the user_id column create_snapshot gave it
context_snapshots(snaps) ==
    UNION {{[user_id |-> u, position |-> i, row |-> snaps[u][i]] :
              i \in 1..Len(snaps[u])} : u \in DOMAIN snaps}

\* None, as get_latest_snapshot returns it
NoSnapshot == [user_id |-> 0, position |-> 0, row |-> <<>>]

\* the query ordered by insertion instead of generated_at
get_latest_snapshot_by_insertion(tbl, user_id) ==
    LET mine == {r \in tbl : r.user_id = user_id}
    IN IF mine = {} THEN {NoSnapshot}
       ELSE {r \in mine : \A o \in mine : o.position <= r.position}

\* the query without filter(user_id == user_id)
get_latest_snapshot_of_any_user(tbl, user_id) ==
    IF tbl = {} THEN {NoSnapshot}
    ELSE {r \in tbl : \A o \in tbl : o.row.generated_at <= r.row.generated_at}

\* ContextSnapshotService.get_latest_snapshot, as the rows that
\* filter(user_id).order_by(desc(generated_at)).first() can return: the order
\* among rows of equal generated_at is the database's choice
get_latest_snapshot(tbl, user_id) ==
    LET mine == {r \in tbl : r.user_id = user_id}
    IN IF mine = {} THEN {NoSnapshot}
       ELSE {r \in mine : \A o \in mine : o.row.generated_at <= r.row.generated_at}

\* ------------------------------------------------- what the sources serve
\* versions of the document a source serves
Versions == 1..2

\* the document a source serves: odd sources know the display name, even ones
\* the timezone; both give a locale and overlapping recents and pointers
Document(s, v) ==
    [schema_version |-> IF s % 2 = 1 THEN "1.0" ELSE "1.1",
     generated_at |-> 10 * v - s,
     sources |-> CASE v = 1 -> <<[source_id |-> "api", cursor |-> NoneStr],
                                 [source_id |-> "db", cursor |-> "c1"]>>
                   [] v = 2 -> <<>>
                   [] OTHER -> <<[source_id |-> "api", cursor |-> "c2"]>>,
     facts |-> IF s % 2 = 1
               THEN [k \in {"display_name", "locale"} |->
                        IF k = "locale" THEN "es" ELSE "Emi"]
               ELSE [k \in {"timezone", "locale"} |->
                        IF k = "locale" THEN "en" ELSE "Europe/Madrid"],
     recents |-> [c \in {"top"} |->
                    IF s % 2 = 1
                    THEN <<[isdict |-> TRUE, id |-> "1", val |-> "A"]>>
                    ELSE <<[isdict |-> TRUE, id |-> "1", val |-> "B"],
                           [isdict |-> FALSE, id |-> NoneStr, val |-> "x"]>>],
     pointers |-> [c \in {"projects"} |->
                    IF s % 2 = 1 THEN <<"p1", "p2">> ELSE <<"p2", "p3">>]]

\* the ETag header sent with a version: quoted, none, weak
EtagHeader(v) ==
    CASE v = 1 -> <<"Q", "e1", "Q">>
      [] v = 2 -> <<>>
      [] OTHER -> <<"W/", "Q", "e2", "Q">>

NoBody == Document(1, 1)

Exchange(cred, net, status, body_kind, body, etag_header) ==
    [cred |-> cred, net |-> net, status |-> status, body_kind |-> body_kind,
     body |-> body, etag_header |-> etag_header]

\* the exchanges one fetch of source s can meet
Exchanges(s) ==
    {Exchange("no_token", "answered", 200, "json_ok", NoBody, <<>>),
     Exchange("ok", "Read timed out", 200, "json_ok", NoBody, <<>>),
     Exchange("ok", "answered", 304, "json_ok", NoBody, <<>>),
     Exchange("ok", "answered", 401, "json_ok", NoBody, <<>>),
     Exchange("ok", "answered", 500, "json_ok", NoBody, <<>>),
     Exchange("ok", "answered", 200, "not_json", NoBody, <<>>),
     Exchange("ok", "answered", 200, "bad_schema", NoBody, <<>>)}
    \cup {Exchange("ok", "answered", 200, "json_ok", Document(s, v), EtagHeader(v)) :
            v \in Versions}

\* what the source did in an exchange, in the terms of the orchestrator's
\* per-source outcome: "ok" (a 200 with a valid pack), "not_modified", "error"
Outcome(x) ==
    IF x.cred # "ok" \/ x.net # "answered" THEN "error"
    ELSE IF x.status = 304 THEN "not_modified"
    ELSE IF x.status = 200 /\ x.body_kind = "json_ok" THEN "ok"
    ELSE "error"

\* ------------------------------------------------------------ orchestrator
\* timedelta(minutes=min(60, 2)), in seconds
ErrorBackoffSeconds == Min2(60, 2) * 60

NoResult == FetchResult(<<>>, NoneTok, NoneStr, FALSE, NoneStr)

\* the page of sources without the "if s.enabled" test
get_enabled_sources_unfiltered(reg) == get_context_sources(reg, 0, SOURCES_PAGE_SYNC)

\* SyncContextForUserCommand._get_enabled_sources
get_enabled_sources(reg) ==
    FilterSeq(get_context_sources(reg, 0, SOURCES_PAGE_SYNC),
              {s \in SourceIds : reg[s].enabled})

\* a failure handler that also drops the pair's tokens
handle_fetch_error_dropping_tokens(state, error, now) ==
    [update_state(state, NoTime, now, error, NoneTok, NoneStr,
                  now + ErrorBackoffSeconds)
        EXCEPT !.etag = NoneTok, !.since_cursor = NoneStr]

\* SyncContextForUserCommand._handle_fetch_error, as the row after it
handle_fetch_error(state, error, now) ==
    update_state(state, NoTime, now, error, NoneTok, NoneStr,
                 now + ErrorBackoffSeconds)

\* a 304 handler that schedules with the failure backoff
handle_not_modified_with_backoff(state, poll_interval, now) ==
    update_state(state, now, NoTime, NoneStr, NoneTok, NoneStr,
                 now + ErrorBackoffSeconds)

\* SyncContextForUserCommand._handle_not_modified, as the row after it
handle_not_modified(state, poll_interval, now) ==
    update_state(state, now, NoTime, NoneStr, NoneTok, NoneStr, now + poll_interval)

\* SyncContextForUserCommand._handle_fetch_success, as the row after it
handle_fetch_success(state, result, poll_interval, now) ==
    update_state(state, now, now, NoneStr, result.etag, result.cursor,
                 now + poll_interval)

\* SyncContextForUserCommand._process_fetch_result: the row after it and the
\* pack it returns (<<>>: None)
process_fetch_result(state, result, poll_interval, now) ==
    IF TruthyStr(result.error)
      THEN [row |-> handle_fetch_error(state, result.error, now), pack |-> <<>>]
    ELSE IF result.not_modified
      THEN [row |-> handle_not_modified(state, poll_interval, now), pack |-> <<>>]
    ELSE IF result.payload # <<>>
      THEN [row |-> handle_fetch_success(state, result, poll_interval, now),
            pack |-> result.payload]
    ELSE [row |-> state, pack |-> <<>>]

\* a loop that returns after its first source
loop_next_returning(i, sources) == "finish"

\* for source in sources: where the loop of _fetch_packs_from_sources goes
\* after the body has run for sources[i]
loop_next(i, sources) == IF i = Len(sources) THEN "finish" ELSE "get_state"

\* execute reporting failure whenever there is nothing to merge
execute_outcome_null_without_packs(user_id, packs_to_merge, had_fetch_errors) ==
    IF packs_to_merge = <<>> THEN [store |-> FALSE, ret |-> <<>>]
    ELSE [store |-> TRUE, ret |-> <<user_id>>]

\* the end of SyncContextForUserCommand.execute: whether a snapshot is stored
\* and what is returned (<<>>: None)
execute_outcome(user_id, packs_to_merge, had_fetch_errors) ==
    IF packs_to_merge = <<>>
      THEN IF had_fetch_errors THEN [store |-> FALSE, ret |-> <<>>]
           ELSE [store |-> FALSE, ret |-> <<user_id>>]
    ELSE [store |-> TRUE, ret |-> <<user_id>>]

\* the position and locals of an invocation of execute; log, enabled0 and
\* snap0 record what happened for the properties: each exchange met, the
\* sources enabled and the user's snapshot count when the run began
IdleRun ==
    [pc |-> "idle", user_id |-> 0, sources |-> <<>>, i |-> 1, now |-> NoTime,
     packs_to_merge |-> <<>>, had_fetch_errors |-> FALSE,
     state |-> NoRow, request |-> BuildRequest(0, NoRow), result |-> NoResult,
     ret |-> <<>>, log |-> <<>>, enabled0 |-> {}, snap0 |-> 0]

NoSweep == [limit |-> 0, pairs |-> <<>>, delayed |-> <<>>, ret |-> 0, calls |-> 0]

\* ------------------------------------------- the state table under workers
\* the workers that call the state service at the same time
Workers == {"w1", "w2"}

\* the pairs the concurrent workers sync: the sources of one user
WorkerPairs == {p \in Pairs : \A v \in UserIds : p[2] <= v}

\* ContextSourceState(source_id=..., user_id=...): a row of the table
new_state(pair) ==
    [source_id |-> pair[1], user_id |-> pair[2],
     last_success_at |-> NoTime, last_attempt_at |-> NoTime, last_error |-> NoneStr,
     etag |-> NoneTok, since_cursor |-> NoneStr, next_run_at |-> NoTime]

\* query(ContextSourceState).filter(source_id, user_id).first(): the position of
\* the first row of the pair, 0 for None
query_state(tbl, pair) ==
    IF \E i \in 1..Len(tbl) : tbl[i].source_id = pair[1] /\ tbl[i].user_id = pair[2]
    THEN CHOOSE i \in 1..Len(tbl) :
            /\ tbl[i].source_id = pair[1] /\ tbl[i].user_id = pair[2]
            /\ \A j \in 1..(i - 1) :
                 ~(tbl[j].source_id = pair[1] /\ tbl[j].user_id = pair[2])
    ELSE 0

\* an insert into a table that has no unique constraint on the pair
insert_state_unconstrained(tbl, row) == [raised |-> FALSE, table |-> Append(tbl, row)]

\* db.add(state); db.commit() under uq_context_source_state_source_user: the
\* table after the commit, or the IntegrityError the constraint raises
insert_state(tbl, row) ==
    IF \E i \in 1..Len(tbl) :
          tbl[i].source_id = row.source_id /\ tbl[i].user_id = row.user_id
    THEN [raised |-> TRUE, table |-> tbl]
    ELSE [raised |-> FALSE, table |-> Append(tbl, row)]

\* the keyword arguments of an update_state call
UpdateArguments(last_success_at, last_attempt_at, last_error, etag, since_cursor, next_run_at) ==
    [last_success_at |-> last_success_at, last_attempt_at |-> last_attempt_at,
     last_error |-> last_error, etag |-> etag, since_cursor |-> since_cursor,
     next_run_at |-> next_run_at]

NoArguments == UpdateArguments(NoTime, NoTime, NoneStr, NoneTok, NoneStr, NoTime)

\* the update_state calls the workers make: the three the orchestrator makes
\* (failure, 304, success with and without tokens), one with every argument
\* omitted and one with every argument given
UpdateCalls ==
    {UpdateArguments(NoTime, 40, "HTTP 500: no body", NoneTok, NoneStr,
                     40 + ErrorBackoffSeconds),
     UpdateArguments(50, NoTime, NoneStr, NoneTok, NoneStr, 50 + POLL_MIN),
     UpdateArguments(30, 30, NoneStr, <<"e1">>, "c1", 30 + POLL_DEFAULT),
     UpdateArguments(70, 70, NoneStr, NoneTok, NoneStr, 70 + POLL_DEFAULT),
     NoArguments,
     UpdateArguments(80, 90, "Read timed out", <<"e2">>, "c2", 100)}

\* a worker's position and locals: the pair it works on, the row it holds
\* (state, a position in the table), the last update it made (args) on which
\* row image (pre), and whether its last get_or_create_state raised
IdleWorker ==
    [pc |-> "idle", pair |-> <<0, 0>>, state |-> 0, args |-> NoArguments,
     pre |-> new_state(<<0, 0>>), raised |-> FALSE, calls |-> 0]

\* ------------------------------------------------------- merge_packs calls
\* no list handed to merge_packs yet
NoMerge == [packs |-> <<>>, calls |-> <<>>]

\* the tables of the sync subsystem before anything has run
InitSync ==
    /\ clock = 0
    /\ registry = [s \in SourceIds |->
                    [enabled |-> TRUE, deleted |-> FALSE,
                     poll_interval_seconds |-> POLL_DEFAULT]]
    /\ rows = [p \in Pairs |-> NoRow]
    /\ snapshots = [u \in UserIds |-> <<>>]
    /\ run = IdleRun
    /\ nedits = 0
    /\ sweep = NoSweep
    /\ queue = [u \in UserIds |-> 0]
    /\ crashed = {}
    /\ table = <<>>
    /\ procs = [w \in Workers |-> IdleWorker]

Init == InitSync /\ merge = NoMerge

Resting == run.pc \in {"idle", "done"}

\* time passes between invocations, one shortest poll interval at a time
Tick ==
    /\ Resting
    /\ clock + POLL_MIN <= MaxClock
    /\ clock' = clock + POLL_MIN
    /\ UNCHANGED <<registry, rows, snapshots, run, nedits, sweep, queue, crashed, table, procs, merge>>

\* PATCH /context-sources/{id}
UpdateContextSource(s, enabled, poll) ==
    /\ Resting
    /\ s \in NotDeleted(registry)
    /\ registry' = [registry EXCEPT ![s] = update_context_source(@, enabled, poll)]
    /\ registry' # registry
    /\ nedits < MaxEdits
    /\ nedits' = nedits + 1
    /\ UNCHANGED <<clock, rows, snapshots, run, sweep, queue, crashed, table, procs, merge>>

\* DELETE /context-sources/{id}
DeleteContextSource(s) ==
    /\ Resting
    /\ s \in NotDeleted(registry)
    /\ registry' = [registry EXCEPT ![s] = delete_record(@)]
    /\ nedits < MaxEdits
    /\ nedits' = nedits + 1
    /\ UNCHANGED <<clock, rows, snapshots, run, sweep, queue, crashed, table, procs, merge>>

\* execute, to the start of the loop over the sources
ExecuteStart(u) ==
    /\ Resting
    /\ LET sources == get_enabled_sources(registry)
           begun == [IdleRun EXCEPT
                        !.user_id = u,
                        !.enabled0 = {s \in SourceIds :
                                        registry[s].enabled /\ ~registry[s].deleted},
                        !.snap0 = Len(snapshots[u])]
       IN run' = IF sources = <<>>
                 THEN [begun EXCEPT !.pc = "done", !.ret = <<u>>]
                 ELSE [begun EXCEPT !.pc = "get_state", !.sources = sources,
                                    !.now = clock]
    /\ UNCHANGED <<clock, registry, rows, snapshots, nedits, sweep, queue, crashed, table, procs, merge>>

\* the loop body: state_svc.get_or_create_state
GetOrCreateState ==
    /\ run.pc = "get_state"
    /\ LET pair == <<run.sources[run.i], run.user_id>>
       IN /\ rows' = get_or_create_state(rows, pair)
          /\ run' = [run EXCEPT !.pc = "fetch", !.state = rows'[pair]]
    /\ UNCHANGED <<clock, registry, snapshots, nedits, sweep, queue, crashed, table, procs, merge>>

\* the loop body: fetcher.fetch; the exchange lasts as long as the timeout allows
Fetch(x) ==
    /\ run.pc = "fetch"
    /\ clock + TIMEOUT_SECONDS <= MaxClock
    /\ clock' = clock + TIMEOUT_SECONDS
    /\ run' = [run EXCEPT
                  !.pc = "process",
                  !.request = BuildRequest(run.user_id, run.state),
                  !.result = fetch(run.user_id, run.sources[run.i], run.state, x),
                  !.log = Append(@, [source |-> run.sources[run.i],
                                     outcome |-> Outcome(x), x |-> x,
                                     sent |-> requests_get_called(x)])]
    /\ UNCHANGED <<registry, rows, snapshots, nedits, sweep, queue, crashed, table, procs, merge>>

\* the loop body: had_fetch_errors, _process_fetch_result, packs_to_merge
ProcessFetchResult ==
    /\ run.pc = "process"
    /\ LET s == run.sources[run.i]
           pair == <<s, run.user_id>>
           done == process_fetch_result(rows[pair], run.result,
                                        registry[s].poll_interval_seconds, run.now)
       IN /\ rows' = [rows EXCEPT ![pair] = done.row]
          /\ run' = [run EXCEPT
                        !.had_fetch_errors = @ \/ TruthyStr(run.result.error),
                        !.packs_to_merge = @ \o done.pack,
                        !.i = @ + 1,
                        !.pc = loop_next(run.i, run.sources)]
    /\ UNCHANGED <<clock, registry, snapshots, nedits, sweep, queue, crashed, table, procs, merge>>

\* execute after the loop: merge and store, or report
ExecuteFinish ==
    /\ run.pc = "finish"
    /\ LET out == execute_outcome(run.user_id, run.packs_to_merge,
                                  run.had_fetch_errors)
           merged == merge_packs(run.packs_to_merge, clock)
       IN /\ snapshots' =
                IF out.store
                THEN [snapshots EXCEPT ![run.user_id] =
                        create_snapshot(@, merged.schema_version, merged.generated_at,
                                        merged, clock)]
                ELSE snapshots
          /\ run' = [run EXCEPT !.pc = "done", !.ret = out.ret]
    /\ UNCHANGED <<clock, registry, rows, nedits, sweep, queue, crashed, table, procs, merge>>

\* one entry per due pair instead of one per distinct user
due_user_ids_per_pair(pairs) == [i \in 1..Len(pairs) |-> pairs[i][2]]

\* {str(u.id) for _, u in pairs}, as the list the loop over the set walks
due_user_ids(pairs) == SortedSeq({pairs[i][2] : i \in 1..Len(pairs)})

\* sync_context_all_due_task(limit)
SyncContextAllDueTask(limit) ==
    /\ LET pairs == get_due_user_source_pairs(registry, rows, clock, limit)
           user_ids == due_user_ids(pairs)
       IN /\ queue' = [u \in UserIds |->
                         queue[u] + Cardinality({i \in 1..Len(user_ids) :
                                                    user_ids[i] = u})]
          /\ sweep' = [limit |-> limit, pairs |-> pairs, delayed |-> user_ids,
                       ret |-> Len(user_ids), calls |-> sweep.calls + 1]
    /\ UNCHANGED <<clock, registry, rows, snapshots, run, nedits, crashed, table, procs, merge>>

\* sync_context_for_user_task(user_id_str) for a queued message: the command is
\* constructed with a keyword its constructor does not take, which raises
SyncContextForUserTask(u) ==
    /\ queue[u] > 0
    /\ queue' = [queue EXCEPT ![u] = @ - 1]
    /\ crashed' = crashed \cup {u}
    /\ UNCHANGED <<clock, registry, rows, snapshots, run, nedits, sweep,
                   table, procs, merge>>

\* the registry's write operations
Registry ==
    \/ \E s \in SourceIds, e \in {"None", "True", "False"},
          p \in PollChoices \cup {NoTime} : UpdateContextSource(s, e, p)
    \/ \E s \in SourceIds : DeleteContextSource(s)

\* the user whose syncs Spec and SpecFailures follow
SyncUsers == {CHOOSE u \in UserIds : \A v \in UserIds : u <= v}

\* the exchanges of Spec: a timeout, a 500, a 304, and every version of the pack
MainExchanges ==
    {x \in Exchanges(run.sources[run.i]) :
        \/ x.cred = "ok" /\ x.net # "answered"
        \/ x.cred = "ok" /\ x.net = "answered" /\ x.status \in {304, 500}
        \/ Outcome(x) = "ok"}

\* the registry and the syncs of one user
Next ==
    \/ Tick
    \/ Registry
    \/ \E u \in SyncUsers : ExecuteStart(u)
    \/ GetOrCreateState
    \/ run.pc = "fetch" /\ \E x \in MainExchanges : Fetch(x)
    \/ ProcessFetchResult
    \/ ExecuteFinish

Spec == Init /\ [][Next]_vars

\* the exchanges of SpecFailures: every failure, and one version of the pack
FailureExchanges ==
    {x \in Exchanges(run.sources[run.i]) :
        Outcome(x) = "error" \/ (Outcome(x) = "ok" /\ x.etag_header # <<>>)}

\* the syncs of one user against sources that fail in every way
NextFailures ==
    \/ Tick
    \/ Registry
    \/ \E u \in SyncUsers : ExecuteStart(u)
    \/ GetOrCreateState
    \/ run.pc = "fetch" /\ \E x \in FailureExchanges : Fetch(x)
    \/ ProcessFetchResult
    \/ ExecuteFinish

SpecFailures == Init /\ [][NextFailures]_vars

\* the exchanges of SpecFetch: every one, and a 200 whose ETag is the empty
\* entity-tag, two double quotes
FetchExchanges ==
    Exchanges(run.sources[run.i])
    \cup {Exchange("ok", "answered", 200, "json_ok",
                   Document(run.sources[run.i], 1), <<"Q", "Q">>)}

\* the syncs of one user against a fixed registry, every exchange possible
NextFetch ==
    \/ Tick
    \/ \E u \in SyncUsers : ExecuteStart(u)
    \/ GetOrCreateState
    \/ run.pc = "fetch" /\ \E x \in FetchExchanges : Fetch(x)
    \/ ProcessFetchResult
    \/ ExecuteFinish

SpecFetch == Init /\ [][NextFetch]_vars

\* the process running execute ends (worker killed, task time limit) after
\* get_or_create_state has committed the row and before update_state is called
StopRun ==
    /\ run.pc \in {"fetch", "process"}
    /\ run' = IdleRun
    /\ UNCHANGED <<clock, registry, rows, snapshots, nedits, sweep, queue, crashed, table, procs, merge>>

\* the syncs of one user against a fixed registry, by processes that can stop
NextStops ==
    \/ Tick
    \/ \E u \in SyncUsers : ExecuteStart(u)
    \/ GetOrCreateState
    \/ run.pc = "fetch" /\ \E x \in MainExchanges : Fetch(x)
    \/ ProcessFetchResult
    \/ ExecuteFinish
    \/ StopRun

SpecStops == Init /\ [][NextStops]_vars

\* the exchanges of SpecSweep: every source answers with its pack
SweepExchanges ==
    {x \in Exchanges(run.sources[run.i]) : Outcome(x) = "ok" /\ x.etag_header # <<>>}

\* the registry and the syncs of every user, then one sweep
NextSweep ==
    \/ sweep.calls = 0 /\ Tick
    \/ sweep.calls = 0 /\ Registry
    \/ sweep.calls = 0 /\ \E u \in UserIds : ExecuteStart(u)
    \/ sweep.calls = 0 /\ GetOrCreateState
    \/ sweep.calls = 0 /\ run.pc = "fetch" /\ \E x \in SweepExchanges : Fetch(x)
    \/ sweep.calls = 0 /\ ProcessFetchResult
    \/ sweep.calls = 0 /\ ExecuteFinish
    \/ sweep.calls = 0 /\ \E limit \in 0..MaxLimit : SyncContextAllDueTask(limit)

SpecSweep == Init /\ [][NextSweep]_vars

\* the registry, sweeps and the per-user tasks they enqueue
NextTasks ==
    \/ Tick
    \/ Registry
    \/ \E limit \in 0..MaxLimit :
          /\ sweep.calls < MaxSweeps
          /\ \A u \in UserIds : queue[u] = 0
          /\ SyncContextAllDueTask(limit)
    \/ \E u \in UserIds : SyncContextForUserTask(u)

SpecTasks == Init /\ [][NextTasks]_vars

\* --------------------------------------------- packs handed to merge_packs
RECURSIVE Repeat(_, _)
\* the string c * n
Repeat(c, n) ==
    IF n = 0 THEN ""
    ELSE IF n % 2 = 0 THEN LET half == Repeat(c, n \div 2) IN half \o half
    ELSE c \o Repeat(c, n - 1)

\* fact values of 4000 characters, and the two around the byte budget: the
\* facts {"locale": v} serialize to len(v) + 14 bytes
Long4000 == Repeat("x", 4000)

LongFits == Repeat("y", FACTS_MAX_BYTES - 14)

LongOver == Repeat("z", FACTS_MAX_BYTES - 13)

\* the facts of the packs: dicts of short values that share a key and differ on
\* it, and dicts with long values that fill or overflow the budget alone or
\* merged
FactsSamples ==
    {EmptyMap,
     [k \in {"locale"} |-> "es"],
     [k \in {"locale"} |-> "en"],
     [k \in {"locale", "timezone"} |-> IF k = "locale" THEN "en" ELSE "cet"],
     [k \in {"timezone"} |-> Long4000],
     [k \in {"display_name", "timezone"} |->
         IF k = "timezone" THEN "tz" ELSE Long4000],
     [k \in {"display_name", "locale"} |-> Long4000],
     [k \in {"locale"} |-> LongFits],
     [k \in {"locale"} |-> LongOver]}

\* recents items: {"id": id, "label": val}, and a scalar
Object(id, val) == [isdict |-> TRUE, id |-> id, val |-> val]

Scalar(val) == [isdict |-> FALSE, id |-> NoneStr, val |-> val]

\* objects with the ids a..b
ObjectRun(a, b) == [i \in 1..(b - a + 1) |-> Object(ToString(a + i - 1), "run")]

\* the recents of the packs: duplicates by id and by value within and across
\* packs, objects whose id is the empty string, and a list longer than the cap
RecentsSamples ==
    {[c \in {"top"} |-> <<Object("1", "A"), Object("2", "B"), Scalar("x")>>],
     [c \in {"top", "other"} |->
         IF c = "top"
         THEN <<Object("1", "C"), Scalar("x"), Scalar("y"), Object("2", "B")>>
         ELSE <<Scalar("z"), Scalar("z"), Object(NoneStr, "n"), Object(NoneStr, "n")>>],
     [c \in {"top"} |-> <<Object("", "A"), Object("", "B"), Object("", "A")>>],
     [c \in {"top"} |-> ObjectRun(1, RECENTS_MAX_COUNT + 5)]}

\* the identifiers a..b
IdRun(a, b) == [i \in 1..(b - a + 1) |-> ToString(a + i - 1)]

\* the pointers of the packs: duplicates within and across packs, and a list
\* longer than the cap
PointersSamples ==
    {[c \in {"projects"} |-> <<"2", "900", "2">>],
     [c \in {"projects", "docs"} |->
         IF c = "projects" THEN <<"900", "901">> ELSE <<"d1">>],
     [c \in {"projects"} |-> IdRun(1, POINTERS_MAX_PER_CATEGORY + 5)]}

\* MergeableContextPack(...): generated_at and schema_version vary with the
\* content, so that lists hold the freshest pack first as well as last
Pack(facts, recents, pointers) ==
    LET n == Cardinality(DOMAIN facts) + Cardinality(DOMAIN recents)
             + 2 * Cardinality(DOMAIN pointers)
    IN [source_id |-> 0,
        schema_version |-> IF n % 2 = 0 THEN "1.0" ELSE "1.1",
        generated_at |-> 10 * n + 5,
        facts |-> facts, recents |-> recents, pointers |-> pointers]

SamplePacks ==
    {Pack(f, EmptyMap, EmptyMap) : f \in FactsSamples}
    \cup {Pack(EmptyMap, r, EmptyMap) : r \in RecentsSamples}
    \cup {Pack(EmptyMap, EmptyMap, q) : q \in PointersSamples}

\* the ordered lists of packs merge_packs is called with
PackLists == UNION {[1..n -> SamplePacks] : n \in 0..MaxPacks}

\* the variables of the sync subsystem's own run, sweep and registry
syncvars == <<clock, registry, rows, snapshots, run, nedits, sweep, queue, crashed>>

\* a list of packs is handed to the merge engine
InitMerge == InitSync /\ merge \in {[packs |-> l, calls |-> <<>>] : l \in PackLists}

\* ContextMergeService.merge_packs(packs), called at the time of the clock
MergePacks ==
    /\ Len(merge.calls) < MaxMergeCalls
    /\ merge' = [merge EXCEPT !.calls =
                    Append(@, [at |-> clock,
                               payload |-> merge_packs(merge.packs, clock)])]
    /\ UNCHANGED <<syncvars, table, procs>>

\* calls of merge_packs on one list as time passes
NextMerge ==
    \/ Tick
    \/ MergePacks

SpecMerge == InitMerge /\ [][NextMerge]_vars

\* -------------------------------------------------- workers on the table
\* a worker enters get_or_create_state(source_id, user_id)
GetOrCreateCall(w, pair) ==
    /\ procs[w].pc = "idle"
    /\ procs[w].calls < MaxCalls
    /\ procs' = [procs EXCEPT ![w] =
                    [IdleWorker EXCEPT !.pc = "query", !.pair = pair,
                                       !.calls = procs[w].calls + 1]]
    /\ UNCHANGED <<syncvars, table, merge>>

\* get_or_create_state: the query, and the return when a row is found
GetOrCreateQuery(w) ==
    /\ procs[w].pc = "query"
    /\ LET found == query_state(table, procs[w].pair)
       IN procs' = [procs EXCEPT ![w].pc = IF found # 0 THEN "have" ELSE "insert",
                                 ![w].state = found]
    /\ UNCHANGED <<syncvars, table, merge>>

\* get_or_create_state: add, commit, refresh and return; an IntegrityError of
\* the commit leaves the function
GetOrCreateInsert(w) ==
    /\ procs[w].pc = "insert"
    /\ LET done == insert_state(table, new_state(procs[w].pair))
       IN /\ table' = done.table
          /\ procs' = [procs EXCEPT
                          ![w].pc = IF done.raised THEN "idle" ELSE "have",
                          ![w].raised = done.raised,
                          ![w].state = IF done.raised THEN 0 ELSE Len(done.table)]
    /\ UNCHANGED <<syncvars, merge>>

\* update_state(state, ...) on the row the worker holds
UpdateState(w, a) ==
    /\ procs[w].pc = "have"
    /\ table' = [table EXCEPT ![procs[w].state] =
                    update_state(@, a.last_success_at, a.last_attempt_at,
                                 a.last_error, a.etag, a.since_cursor, a.next_run_at)]
    /\ procs' = [procs EXCEPT ![w].pc = "idle", ![w].args = a,
                              ![w].pre = table[procs[w].state]]
    /\ UNCHANGED <<syncvars, merge>>

\* workers calling the state service for the same user at the same time
NextWorkers ==
    \/ \E w \in Workers, pair \in WorkerPairs : GetOrCreateCall(w, pair)
    \/ \E w \in Workers : GetOrCreateQuery(w)
    \/ \E w \in Workers : GetOrCreateInsert(w)
    \/ \E w \in Workers, a \in UpdateCalls : UpdateState(w, a)

SpecWorkers == Init /\ [][NextWorkers]_vars

\* ============================================================== properties
\* the user of the orchestrator invocation in progress or last finished
RunUser == run.user_id

\* the per-source outcomes of the invocation so far, in fetch order
RunOutcomes == [i \in 1..Len(run.log) |-> run.log[i].outcome]

\* snapshots the invocation has added for its user
Written == Len(snapshots[RunUser]) - run.snap0

\* the loop body has just run for a source, and the registry is as it saw it
Processed == run.pc \in {"get_state", "finish"} /\ run.i > 1

\* the source just processed, its pair, its outcome, and its row as stored
LastSource == run.sources[run.i - 1]

LastPair == <<LastSource, RunUser>>

LastOutcome == run.log[Len(run.log)].outcome

LastRow == rows[LastPair]

LastPoll == registry[LastSource].poll_interval_seconds

OkPacks ==
    LET ok == {i \in 1..Len(run.log) : RunOutcomes[i] = "ok"}
        ids == SortedSeq({run.log[i].source : i \in ok})
        entry(s) == CHOOSE i \in ok : run.log[i].source = s
    IN [k \in 1..Len(ids) |-> to_mergeable_pack(run.log[entry(ids[k])].x.body, ids[k])]

\* C2: a finished run in which at least one source returned a pack has written
\* exactly one new snapshot for the user, whose payload is the merge of exactly
\* the packs fetched successfully in this run, in ascending source order (each
\* fact comes from the first such source that defines it, nothing comes from a
\* source that failed or answered 304); a run in which no source returned a
\* pack has written none.
C2_OneSnapshotOfFetchedPacks ==
    run.pc = "done" =>
        IF OkPacks = <<>> THEN Written = 0
        ELSE /\ Written = 1
             /\ LET snap == snapshots[RunUser][Len(snapshots[RunUser])]
                    defines(k) == {i \in 1..Len(OkPacks) : k \in DOMAIN OkPacks[i].facts}
                    first(k) == CHOOSE i \in defines(k) : \A j \in defines(k) : i <= j
                IN /\ snap.payload = merge_packs(OkPacks, snap.created_at)
                   /\ DOMAIN snap.payload.facts =
                        UNION {DOMAIN OkPacks[i].facts : i \in 1..Len(OkPacks)}
                   /\ \A k \in DOMAIN snap.payload.facts :
                        snap.payload.facts[k] = OkPacks[first(k)].facts[k]
                   /\ snap.schema_version = OkPacks[1].schema_version

\* a run whose first source failed and whose second returned a pack has
\* written its one snapshot
C2_Witness ==
    /\ run.pc = "done"
    /\ RunOutcomes = <<"error", "ok">>
    /\ Written = 1

\* ---------------------------------------------------------------------- C3
\* C3: after a successful fetch of a pair that had a recorded failure, the
\* pair's last_error is null.
C3_SuccessClearsLastError ==
    (Processed /\ LastOutcome = "ok") => LastRow.last_error = NoneStr

\* ---------------------------------------------------------------------- C4
\* C4: when a fetch for a pair fails, the pair's row gets last_attempt_at set
\* to the run's now, last_error set to the error message, and next_run_at set
\* to now plus two minutes whatever the source's poll interval; etag,
\* since_cursor and last_success_at keep the values they had before the fetch.
C4_FailureRecordsErrorAndBackoff ==
    (Processed /\ LastOutcome = "error") =>
        /\ LastRow.last_attempt_at = run.now
        /\ run.result.error # NoneStr
        /\ LastRow.last_error = run.result.error
        /\ LastRow.next_run_at = run.now + 2 * 60
        /\ LastRow.etag = run.state.etag
        /\ LastRow.since_cursor = run.state.since_cursor
        /\ LastRow.last_success_at = run.state.last_success_at

\* a fetch has failed for a pair that held tokens from an earlier success, on
\* a source whose poll interval is not the default
C4_Witness ==
    /\ Processed
    /\ LastOutcome = "error"
    /\ run.state.etag # NoneTok
    /\ run.state.since_cursor # NoneStr
    /\ run.state.last_success_at # NoTime
    /\ LastPoll # POLL_DEFAULT
    /\ LastRow.next_run_at = run.now + 120

\* ---------------------------------------------------------------------- C5
\* C5: a finished run has fetched every source that was enabled when it
\* started, once each and in ascending order, whatever failures (network,
\* HTTP status, invalid JSON, invalid pack, credentials) the earlier sources
\* met, and has updated the state row of each of those pairs.
C5_EverySourceProcessed ==
    run.pc = "done" =>
        /\ [i \in 1..Len(run.log) |-> run.log[i].source] = SortedSeq(run.enabled0)
        /\ \A i \in 1..Len(run.log) :
             LET row == rows[<<run.log[i].source, RunUser>>]
             IN /\ row.exists
                /\ row.next_run_at > run.now
                /\ IF RunOutcomes[i] = "error"
                     THEN row.last_attempt_at = run.now /\ row.last_error # NoneStr
                   ELSE row.last_success_at = run.now

\* a run whose first source could not get credentials and whose second one
\* sent an invalid pack is finished, with both pairs' rows updated
C5_Witness ==
    /\ run.pc = "done"
    /\ Len(run.log) = 2
    /\ run.log[1].x.cred = "no_token"
    /\ run.log[2].x.body_kind = "bad_schema"
    /\ \A i \in 1..2 : rows[<<run.log[i].source, RunUser>>].last_attempt_at = run.now

C7_TokensAreThoseOfLastResponse ==
    (Processed /\ LastOutcome = "ok") =>
        /\ LastRow.etag = run.result.etag
        /\ LastRow.since_cursor = run.result.cursor
        /\ BuildRequest(RunUser, LastRow).if_none_match = run.result.etag
        /\ BuildRequest(RunUser, LastRow).since = run.result.cursor

\* ---------------------------------------------------------------------- C8
\* C8: after a failed fetch the pair is retried after a delay strictly shorter
\* than the source's poll interval, for every poll interval a source can be
\* registered with (60 to 86400 seconds).
C8_BackoffShorterThanPollInterval ==
    (Processed /\ LastOutcome = "error") =>
        /\ LastPoll \in POLL_MIN..POLL_MAX
        /\ LastRow.next_run_at - run.now < LastPoll

\* ---------------------------------------------------------------------- C9
\* the pairs the scheduling table holds as due now: enabled, not deleted
\* source, and no row or a next_run_at at or before now
Qualifying ==
    {p \in Pairs : /\ registry[p[1]].enabled /\ ~registry[p[1]].deleted
                   /\ (~rows[p].exists
                       \/ (rows[p].next_run_at # NoTime /\ rows[p].next_run_at <= clock))}

\* C9: a sweep called with a limit returns at most limit pairs, no pair twice,
\* each of them qualifying (enabled, not deleted source; no row or next_run_at
\* at or before now), and all the qualifying pairs when they are fewer than
\* the limit.
C9_SweepReturnsAtMostLimitDuePairs ==
    sweep.calls > 0 =>
        /\ Len(sweep.pairs) <= sweep.limit
        /\ \A i, j \in 1..Len(sweep.pairs) : sweep.pairs[i] = sweep.pairs[j] => i = j
        /\ Range(sweep.pairs) \subseteq Qualifying
        /\ Cardinality(Qualifying) < sweep.limit => Range(sweep.pairs) = Qualifying

\* --------------------------------------------------------------------- C10
\* C10: a sweep enqueues exactly one per-user task for each distinct user that
\* appears in the due pairs it found, none for any other user, and returns the
\* number of distinct users.
C10_OneTaskPerDistinctUser ==
    sweep.calls > 0 =>
        LET due_users == {sweep.pairs[i][2] : i \in 1..Len(sweep.pairs)}
        IN /\ sweep.pairs = get_due_user_source_pairs(registry, rows, clock, sweep.limit)
           /\ \A u \in UserIds : queue[u] = IF u \in due_users THEN 1 ELSE 0
           /\ sweep.ret = Cardinality(due_users)

\* a sweep found two due pairs of one user and none of another user, and has
\* enqueued one task
C10_Witness ==
    /\ sweep.calls > 0
    /\ \E u \in UserIds :
         /\ Cardinality({i \in 1..Len(sweep.pairs) : sweep.pairs[i][2] = u}) = 2
         /\ queue[u] = 1
    /\ \E v \in UserIds : queue[v] = 0
    /\ sweep.ret = 1

\* --------------------------------------------------------------------- C11
\* the rows of the table that belong to a pair
RowsOf(tbl, pair) ==
    {i \in 1..Len(tbl) : tbl[i].source_id = pair[1] /\ tbl[i].user_id = pair[2]}

\* C11: whatever get_or_create_state and update_state calls workers make for
\* the same user, interleaved in any way, the table never holds two rows of one
\* (source, user) pair; a get_or_create_state whose query finds a row of the
\* pair returns that row and leaves the table alone; and no step removes a
\* row or changes the pair a row belongs to.
C11_OneRowPerPair ==
    /\ [](\A pair \in Pairs : Cardinality(RowsOf(table, pair)) <= 1)
    /\ [][/\ Len(table') >= Len(table)
          /\ \A i \in 1..Len(table) :
               /\ table'[i].source_id = table[i].source_id
               /\ table'[i].user_id = table[i].user_id
          /\ \A w \in Workers :
               (/\ procs[w].pc = "query" /\ procs'[w].pc # "query"
                /\ RowsOf(table, procs[w].pair) # {})
                 => /\ table' = table
                    /\ procs'[w].pc = "have"
                    /\ procs'[w].state \in RowsOf(table, procs[w].pair)]_vars

\* two workers raced to create the row of one pair: one of them holds the row,
\* the other's commit was refused, and the pair has its one row
C11_Witness ==
    \E w, v \in Workers :
        /\ w # v
        /\ procs[w].raised
        /\ procs[v].pair = procs[w].pair
        /\ procs[v].pc = "have"
        /\ Cardinality(RowsOf(table, procs[w].pair)) = 1

\* --------------------------------------------------------------------- C12
\* C12: an update_state call sets exactly the columns for which a non-null
\* argument was passed, to that argument; every column whose argument was null
\* or omitted keeps the value stored, the row stays the row of its pair, and no
\* other row changes.
C12_UpdateStateSetsOnlyGivenFields ==
    [][\A w \in Workers :
         (procs[w].pc = "have" /\ procs'[w].pc = "idle") =>
            LET a == procs'[w].args
                i == procs[w].state
                old == table[i]
                new == table'[i]
            IN /\ new.last_success_at =
                    IF a.last_success_at = NoTime THEN old.last_success_at
                    ELSE a.last_success_at
               /\ new.last_attempt_at =
                    IF a.last_attempt_at = NoTime THEN old.last_attempt_at
                    ELSE a.last_attempt_at
               /\ new.last_error =
                    IF a.last_error = NoneStr THEN old.last_error ELSE a.last_error
               /\ new.etag = IF a.etag = NoneTok THEN old.etag ELSE a.etag
               /\ new.since_cursor =
                    IF a.since_cursor = NoneStr THEN old.since_cursor
                    ELSE a.since_cursor
               /\ new.next_run_at =
                    IF a.next_run_at = NoTime THEN old.next_run_at ELSE a.next_run_at
               /\ new.source_id = old.source_id /\ new.user_id = old.user_id
               /\ Len(table') = Len(table)
               /\ \A j \in 1..Len(table) : j # i => table'[j] = table[j]]_vars

\* an update that passed an error and no tokens was made on a row that held
\* tokens and no error: the row has the error and still has the tokens
C12_Witness ==
    \E w \in Workers :
        /\ procs[w].pc = "idle" /\ procs[w].state # 0
        /\ procs[w].args.last_error # NoneStr
        /\ procs[w].args.etag = NoneTok /\ procs[w].args.since_cursor = NoneStr
        /\ procs[w].pre.etag # NoneTok /\ procs[w].pre.since_cursor # NoneStr
        /\ procs[w].pre.last_error = NoneStr
        /\ table[procs[w].state].last_error = procs[w].args.last_error
        /\ table[procs[w].state].etag = procs[w].pre.etag
        /\ table[procs[w].state].since_cursor = procs[w].pre.since_cursor

\* --------------------------------------------------------------------- C13
\* the payloads merge_packs returned for the list of packs
Payloads == {merge.calls[i].payload : i \in 1..Len(merge.calls)}

\* the fact keys some pack of the list defines
DefinedKeys(packs) == UNION {DOMAIN packs[i].facts : i \in 1..Len(packs)}

\* the position of the first pack of the list that defines the key
FirstDefining(packs, k) ==
    CHOOSE i \in 1..Len(packs) :
        /\ k \in DOMAIN packs[i].facts
        /\ \A j \in 1..(i - 1) : k \notin DOMAIN packs[j].facts

\* every defined key with the value of the first pack that defines it
PriorityFacts(packs) ==
    [k \in DefinedKeys(packs) |-> packs[FirstDefining(packs, k)].facts[k]]

\* C13: when the facts of a list of packs fit the byte cap, the merged facts
\* have exactly the keys that some pack defines, each with the value of the
\* first pack in list order that defines it; later values are discarded.
C13_FirstPackWinsPerKey ==
    \A payload \in Payloads :
        JsonBytes(PriorityFacts(merge.packs)) <= FACTS_MAX_BYTES
        => /\ DOMAIN payload.facts = DefinedKeys(merge.packs)
           /\ \A k \in DefinedKeys(merge.packs) :
                 payload.facts[k]
                 = merge.packs[FirstDefining(merge.packs, k)].facts[k]

\* two packs give different values for a key and the second defines a key of
\* its own: the merge kept the first pack's value and the second's own key
C13_Witness ==
    /\ Payloads # {}
    /\ Len(merge.packs) = 2
    /\ \E k \in DOMAIN merge.packs[1].facts \cap DOMAIN merge.packs[2].facts :
         /\ merge.packs[1].facts[k] # merge.packs[2].facts[k]
         /\ \A payload \in Payloads : payload.facts[k] = merge.packs[1].facts[k]
    /\ \E k \in DOMAIN merge.packs[2].facts \ DOMAIN merge.packs[1].facts :
         \A payload \in Payloads : payload.facts[k] = merge.packs[2].facts[k]

\* --------------------------------------------------------------------- C14
\* the facts restricted to their first n keys in sorted key order
PrefixFacts(facts, n) ==
    [k \in {SortedKeys(facts)[i] : i \in 1..n} |-> facts[k]]

\* the lengths of the prefixes of the sorted keys whose serialization fits
FittingPrefixes(facts) ==
    {n \in 0..Cardinality(DOMAIN facts) :
        JsonBytes(PrefixFacts(facts, n)) <= FACTS_MAX_BYTES}

\* C14: the facts of a merge result never serialize to more than 8192 bytes;
\* merged facts that fit are returned unchanged, otherwise the result is the
\* longest prefix of the keys in sorted order whose serialization fits, every
\* later key being dropped; every key of the result was a key before the
\* truncation and keeps its value.
C14_FactsWithinByteBudget ==
    \A payload \in Payloads :
        LET before == PriorityFacts(merge.packs)
            facts == payload.facts
        IN /\ JsonBytes(facts) <= 8192
           /\ JsonBytes(before) <= FACTS_MAX_BYTES => facts = before
           /\ JsonBytes(before) > FACTS_MAX_BYTES
              => \E n \in FittingPrefixes(before) :
                    /\ \A m \in FittingPrefixes(before) : m <= n
                    /\ facts = PrefixFacts(before, n)
           /\ DOMAIN facts \subseteq DOMAIN before
           /\ \A k \in DOMAIN facts : facts[k] = before[k]

\* the merged facts overflowed at their second key: the result is the first key
\* alone, and a later key that would have fitted beside it is dropped
C14_Witness ==
    \E payload \in Payloads :
        LET before == PriorityFacts(merge.packs)
        IN /\ JsonBytes(before) > FACTS_MAX_BYTES
           /\ DOMAIN payload.facts = {"display_name"}
           /\ "timezone" \in DOMAIN before
           /\ JsonBytes([k \in {"display_name", "timezone"} |-> before[k]])
              <= FACTS_MAX_BYTES

\* --------------------------------------------------------------------- C15
\* the recents categories some pack of the list has
RecentsCategories(packs) == UNION {DOMAIN packs[i].recents : i \in 1..Len(packs)}

RECURSIVE ConcatRecents(_, _)
\* the packs' lists for the category, concatenated in pack order
ConcatRecents(packs, c) ==
    IF packs = <<>> THEN <<>>
    ELSE (IF c \in DOMAIN Head(packs).recents THEN Head(packs).recents[c] ELSE <<>>)
         \o ConcatRecents(Tail(packs), c)

\* whether the item is an object that has an id
HasId(item) == item.isdict /\ item.id # NoneStr

\* whether the later item repeats the earlier one: an object with an id repeats
\* an object with that id, any other item repeats an item equal to it
Repeats(later, earlier) ==
    IF HasId(later) THEN HasId(earlier) /\ earlier.id = later.id
    ELSE earlier = later

\* the sequence without every item that repeats an item before it
DedupById(seq) ==
    LET first == SelectSeq([i \in 1..Len(seq) |-> i],
                           LAMBDA i : \A j \in 1..(i - 1) : ~Repeats(seq[i], seq[j]))
    IN [n \in 1..Len(first) |-> seq[first[n]]]

\* C15: for each recents category the merged list is the first 50 elements of
\* the packs' lists concatenated in pack order without every object whose id
\* is the id of an object already kept and every other item equal to an item
\* already kept: no two objects with the same id, no two equal items, at most
\* 50 elements, first-seen order.
C15_RecentsFirstFiftyDistinctById ==
    \A payload \in Payloads :
        /\ DOMAIN payload.recents = RecentsCategories(merge.packs)
        /\ \A c \in DOMAIN payload.recents :
             LET list == payload.recents[c]
             IN /\ list = Take(DedupById(ConcatRecents(merge.packs, c)), 50)
                /\ Len(list) <= 50
                /\ \A i, j \in 1..Len(list) :
                      i # j => /\ list[i] # list[j]
                               /\ ~ (HasId(list[i]) /\ HasId(list[j])
                                     /\ list[i].id = list[j].id)

\* --------------------------------------------------------------------- C16
\* the pointers categories some pack of the list has
PointersCategories(packs) == UNION {DOMAIN packs[i].pointers : i \in 1..Len(packs)}

\* the identifiers the pack lists under the category
PointersOf(pack, c) == IF c \in DOMAIN pack.pointers THEN Range(pack.pointers[c]) ELSE {}

RECURSIVE ConcatPointers(_, _)
\* the packs' lists for the category, concatenated in pack order
ConcatPointers(packs, c) ==
    IF packs = <<>> THEN <<>>
    ELSE (IF c \in DOMAIN Head(packs).pointers THEN Head(packs).pointers[c] ELSE <<>>)
         \o ConcatPointers(Tail(packs), c)

\* the distinct elements of the sequence in first-seen order
DistinctInOrder(seq) ==
    LET first == SelectSeq([i \in 1..Len(seq) |-> i],
                           LAMBDA i : \A j \in 1..(i - 1) : seq[j] # seq[i])
    IN [n \in 1..Len(first) |-> seq[first[n]]]

\* C16: for each pointers category the merged list is the first 100 distinct
\* identifiers in first-seen order across the packs in list order: no
\* duplicates, at most 100 elements, every element from some pack's list for
\* the category, and when an identifier first listed by a pack is kept, every
\* identifier of the packs before it is kept too.
C16_PointersFirstHundredDistinct ==
    \A payload \in Payloads :
        /\ DOMAIN payload.pointers = PointersCategories(merge.packs)
        /\ \A c \in DOMAIN payload.pointers :
             LET list == payload.pointers[c]
             IN /\ list = Take(DistinctInOrder(ConcatPointers(merge.packs, c)), 100)
                /\ Len(list) <= 100
                /\ \A i, j \in 1..Len(list) : i # j => list[i] # list[j]
                /\ \A i \in 1..Len(list) :
                      \E n \in 1..Len(merge.packs) : list[i] \in PointersOf(merge.packs[n], c)
                /\ \A n \in 1..Len(merge.packs) :
                      (\E id \in PointersOf(merge.packs[n], c) \cap Range(list) :
                          \A m \in 1..(n - 1) : id \notin PointersOf(merge.packs[m], c))
                      => \A m \in 1..(n - 1) :
                            PointersOf(merge.packs[m], c) \subseteq Range(list)

\* two different packs list more than 100 distinct identifiers between them:
\* the merged list has 100, all of the first pack's and some of the second's
C16_Witness ==
    \E payload \in Payloads :
        /\ Len(merge.packs) = 2
        /\ "projects" \in DOMAIN payload.pointers
        /\ Len(payload.pointers["projects"]) = 100
        /\ PointersOf(merge.packs[1], "projects") \subseteq Range(payload.pointers["projects"])
        /\ PointersOf(merge.packs[2], "projects")
           \ (PointersOf(merge.packs[1], "projects")
              \cup Range(payload.pointers["projects"])) # {}
        /\ (PointersOf(merge.packs[2], "projects") \ PointersOf(merge.packs[1], "projects"))
           \cap Range(payload.pointers["projects"]) # {}

\* --------------------------------------------------------------------- C17
\* C17: calling merge_packs twice on one list of packs, the empty list
\* included, yields identical payloads, whatever the times of the calls.
C17_MergeIsDeterministic ==
    \A i, j \in 1..Len(merge.calls) :
        merge.calls[i].payload = merge.calls[j].payload

\* --------------------------------------------------------------------- C18
\* C18: for a non-empty list of packs the payload's generated_at is the
\* maximum generated_at over the packs, wherever in the list that pack stands,
\* and is not taken from the clock: calls at different times give the same value.
C18_GeneratedAtIsMaxOverPacks ==
    merge.packs # <<>>
    => \A i \in 1..Len(merge.calls) :
          LET generated_at == merge.calls[i].payload.generated_at
          IN /\ \E n \in 1..Len(merge.packs) :
                  merge.packs[n].generated_at = generated_at
             /\ \A n \in 1..Len(merge.packs) :
                  merge.packs[n].generated_at <= generated_at
             /\ generated_at # merge.calls[i].at
             /\ \A j \in 1..Len(merge.calls) :
                  merge.calls[j].payload.generated_at = generated_at

\* the freshest pack is the last of the list and merge_packs was called at two
\* different times: both payloads carry that pack's generated_at
C18_Witness ==
    /\ Len(merge.packs) = 2
    /\ merge.packs[1].generated_at < merge.packs[2].generated_at
    /\ Len(merge.calls) = 2
    /\ merge.calls[1].at # merge.calls[2].at
    /\ \A i \in 1..2 :
         merge.calls[i].payload.generated_at = merge.packs[2].generated_at

\* --------------------------------------------------------------------- C19
\* C19: snapshots are append-only, no step of the sync subsystem modifies or
\* removes a stored snapshot; get_latest_snapshot(user) returns null when the
\* user has no snapshot, and otherwise a snapshot of that user whose
\* generated_at is the maximum among that user's snapshots, never a snapshot
\* of another user.
C19_SnapshotsAppendOnlyLatestPerUser ==
    /\ [](\A u \in UserIds :
            \A r \in get_latest_snapshot(context_snapshots(snapshots), u) :
                IF snapshots[u] = <<>> THEN r = NoSnapshot
                ELSE /\ r.user_id = u
                     /\ r.position \in 1..Len(snapshots[u])
                     /\ r.row = snapshots[u][r.position]
                     /\ \A i \in 1..Len(snapshots[u]) :
                           snapshots[u][i].generated_at <= r.row.generated_at)
    /\ [][\A u \in UserIds :
            /\ Len(snapshots'[u]) >= Len(snapshots[u])
            /\ \A i \in 1..Len(snapshots[u]) : snapshots'[u][i] = snapshots[u][i]]_vars

\* a user has two snapshots and another user has a snapshot generated later
\* than both: get_latest_snapshot of the first user returns one of its own
C19_Witness ==
    \E u, v \in UserIds :
        /\ u # v
        /\ Len(snapshots[u]) >= 2
        /\ \E i \in 1..Len(snapshots[v]) :
              \A j \in 1..Len(snapshots[u]) :
                  snapshots[v][i].generated_at > snapshots[u][j].generated_at
        /\ \A r \in get_latest_snapshot(context_snapshots(snapshots), u) :
              r.user_id = u /\ r.row \in Range(snapshots[u])

\* --------------------------------------------------------------------- C20
\* the source is enabled and not soft-deleted
Active(s) == registry[s].enabled /\ ~registry[s].deleted

\* C20: once a source is disabled or soft-deleted, no orchestrator run that
\* starts afterwards fetches it, no due-pair enumeration returns a pair for
\* it, and the state rows stored for it stay in the store as they are.
C20_InactiveSourceNeitherFetchedNorDue ==
    /\ [](/\ ~Resting => \A i \in 1..Len(run.sources) : Active(run.sources[i])
          /\ \A limit \in 0..MaxLimit :
                \A p \in Range(get_due_user_source_pairs(registry, rows, clock, limit)) :
                    Active(p[1])
          /\ \A p \in Range(sweep.pairs) : Active(p[1]))
    /\ [][/\ (run.pc = "fetch" /\ run'.pc = "process") => Active(run.sources[run.i])
          /\ \A p \in Pairs :
                /\ rows[p].exists => rows'[p].exists
                /\ ~Active(p[1]) => rows'[p] = rows[p]]_vars

\* a source was synced and then disabled or deleted: its row is still stored,
\* the run that followed fetched only the other source, and the sweep
\* returned pairs but none for it
C20_Witness ==
    \E s \in SourceIds, u \in UserIds :
        /\ ~Active(s)
        /\ rows[<<s, u>>].exists
        /\ run.pc = "done"
        /\ s \notin run.enabled0
        /\ run.log # <<>>
        /\ \A i \in 1..Len(run.log) : run.log[i].source # s
        /\ sweep.calls = 1
        /\ sweep.pairs # <<>>
        /\ \A p \in Range(sweep.pairs) : p[1] # s

\* --------------------------------------------------------------------- C21
\* C21: every per-user task the sweep enqueues runs the orchestrator for its
\* user to completion, so that once the tasks of a sweep have run, no task has
\* ended with an unhandled error and every pair the sweep reported due has a
\* state row with a next_run_at later than the sweep.
C21_EnqueuedTaskReschedulesItsPairs ==
    /\ crashed = {}
    /\ (sweep.calls > 0 /\ \A u \in UserIds : queue[u] = 0)
       => \A i \in 1..Len(sweep.pairs) :
             /\ rows[sweep.pairs[i]].exists
             /\ rows[sweep.pairs[i]].next_run_at # NoTime

\* --------------------------------------------------------------------- C22
\* the three shapes of a fetch result
IsErrorResult(r) == r.error # NoneStr /\ r.payload = <<>> /\ ~r.not_modified

IsNotModifiedResult(r) == r.not_modified /\ r.payload = <<>> /\ r.error = NoneStr

IsPayloadResult(r) == r.payload # <<>> /\ r.error = NoneStr /\ ~r.not_modified

\* the exchange the fetch of the source in hand has just gone through
LastFetch == run.log[Len(run.log)]

\* C22: whatever credential resolution and the HTTP exchange do, fetch returns
\* a result of exactly one shape: an error, or "not modified" carrying the
\* etag of the state row it was given, or a payload; and when credential
\* resolution fails the result is an error and no HTTP request has been sent.
C22_FetchReturnsOneOfThreeResults ==
    run.pc = "process" =>
        /\ \/ IsErrorResult(run.result)
           \/ IsNotModifiedResult(run.result) /\ run.result.etag = run.state.etag
           \/ IsPayloadResult(run.result)
        /\ LastFetch.x.cred # "ok" =>
              IsErrorResult(run.result) /\ ~LastFetch.sent

\* a fetch whose credentials could not be resolved has just returned
C22_Witness ==
    /\ run.pc = "process"
    /\ LastFetch.x.cred # "ok"
    /\ IsErrorResult(run.result)
    /\ ~LastFetch.sent
    /\ \E i \in 1..(Len(run.log) - 1) : run.log[i].outcome = "not_modified"
\* --------------------------------------------------------------------- C23
\* the state row of the pair whose fetch has just been made
FetchedRow == rows[<<run.sources[run.i], RunUser>>]

\* the row holds a cursor, an etag: the column is neither null nor empty
HoldsCursor(row) == row.since_cursor # NoneStr /\ row.since_cursor # ""

HoldsEtag(row) == row.etag # NoneTok /\ row.etag # <<>>

\* C23: the request sent for a pair carries since exactly when the pair's
\* state row holds a cursor, with that cursor as its value, and If-None-Match
\* exactly when the row holds an etag, with that etag as its value; the first
\* fetch of a pair, whose row has just been created, carries neither.
C23_RequestCarriesTheRowsTokens ==
    (run.pc = "process" /\ LastFetch.sent) =>
        /\ run.request.since =
              (IF HoldsCursor(FetchedRow) THEN FetchedRow.since_cursor ELSE NoneStr)
        /\ run.request.if_none_match =
              (IF HoldsEtag(FetchedRow) THEN FetchedRow.etag ELSE NoneTok)
        /\ FetchedRow = NewRow =>
              run.request.since = NoneStr /\ run.request.if_none_match = NoneTok

\* a request has gone out for a pair whose row holds both a cursor and an etag
C23_Witness ==
    /\ run.pc = "process"
    /\ LastFetch.sent
    /\ HoldsCursor(FetchedRow)
    /\ HoldsEtag(FetchedRow)
    /\ run.request.since = FetchedRow.since_cursor
    /\ run.request.if_none_match = FetchedRow.etag
\* --------------------------------------------------------------------- C24
\* C24: once a successful response carrying an ETag has been processed, the
\* If-None-Match the pair's next fetch sends is that ETag exactly as the
\* source returned it, surrounding double quotes included.
C24_EtagRoundTripsVerbatim ==
    (Processed /\ LastOutcome = "ok" /\ LastFetch.x.etag_header # <<>>) =>
        BuildRequest(RunUser, LastRow).if_none_match = LastFetch.x.etag_header
\* --------------------------------------------------------------------- C25
\* the invocation has returned after storing a snapshot
WroteSnapshot == run.pc = "done" /\ Written = 1

\* the snapshot the invocation stored, as a row of context_snapshots
WrittenSnapshot ==
    [user_id |-> RunUser, position |-> Len(snapshots[RunUser]),
     row |-> snapshots[RunUser][Len(snapshots[RunUser])]]

\* the snapshots the user had before the invocation
EarlierSnapshots ==
    {snapshots[RunUser][i] : i \in 1..(Len(snapshots[RunUser]) - 1)}

\* what a reader gets for the user of the invocation
CurrentSnapshots == get_latest_snapshot(context_snapshots(snapshots), RunUser)

\* C25 as claimed: after a run that writes a snapshot for a user,
\* get_latest_snapshot for that user returns the snapshot that run wrote, also
\* when the packs merged carry generated_at timestamps older than those of an
\* earlier snapshot.
C25_LastWrittenIsCurrent ==
    WroteSnapshot => CurrentSnapshots = {WrittenSnapshot}

\* C25 as corrected: after a run that writes a snapshot for a user,
\* get_latest_snapshot returns the snapshot of that user with the latest
\* generated_at: the one just written when its generated_at is later than
\* that of every earlier snapshot, and an earlier one, not the one just
\* written, when an earlier snapshot has a later generated_at.
C25_CurrentIsLatestGenerated ==
    WroteSnapshot =>
        /\ (\A e \in EarlierSnapshots :
                e.generated_at < WrittenSnapshot.row.generated_at)
              => CurrentSnapshots = {WrittenSnapshot}
        /\ (\E e \in EarlierSnapshots :
                e.generated_at > WrittenSnapshot.row.generated_at)
              => /\ WrittenSnapshot \notin CurrentSnapshots
                 /\ \A r \in CurrentSnapshots :
                       /\ r.row \in EarlierSnapshots
                       /\ \A e \in EarlierSnapshots :
                             e.generated_at <= r.row.generated_at

\* a run has stored a snapshot generated earlier than one the user already
\* had, and the reader still gets the earlier one
C25_Witness ==
    /\ WroteSnapshot
    /\ \E e \in EarlierSnapshots : e.generated_at > WrittenSnapshot.row.generated_at
    /\ WrittenSnapshot \notin CurrentSnapshots
    /\ WrittenSnapshot.row.created_at > 0
\* --------------------------------------------------------------------- C26
\* what a reader got for the user before the invocation stored its snapshot
PreviousSnapshots ==
    get_latest_snapshot(
        context_snapshots([snapshots EXCEPT
            ![RunUser] = SubSeq(@, 1, Len(snapshots[RunUser]) - 1)]),
        RunUser)

\* the fact keys that no other source than s serves
OwnFacts(s) ==
    {k \in DOMAIN Document(s, 1).facts :
        \A t \in SourceIds \ {s} : k \notin DOMAIN Document(t, 1).facts}

\* C26: the facts an enabled source contributed to the user's current
\* snapshot are still in the user's current snapshot after a later run in
\* which that source answered 304 or failed while another source succeeded.
C26_FactsOfSilentSourceKept ==
    (WroteSnapshot /\ EarlierSnapshots # {}) =>
        \A i \in 1..Len(run.log) :
            run.log[i].outcome # "ok" =>
                \A prev \in PreviousSnapshots, r \in CurrentSnapshots :
                    \A k \in OwnFacts(run.log[i].source) :
                        k \in DOMAIN prev.row.payload.facts
                            => /\ k \in DOMAIN r.row.payload.facts
                               /\ r.row.payload.facts[k] = prev.row.payload.facts[k]
\* --------------------------------------------------------------------- C28
\* the pair will be reported due by a sweep at some time from now on
DueAgain(p) ==
    \E t \in {clock, rows[p].next_run_at} : t >= clock /\ IsDue(rows[p], t)

\* C28: whenever no run is in progress, every pair of an enabled source and a
\* user is one that a later sweep reports due as time advances: no state row
\* stays with a null next_run_at once it has been created, also when a run
\* stopped between creating the row and recording the fetch outcome.
C28_EveryPairBecomesDueAgain ==
    Resting =>
        \A p \in Pairs :
            Active(p[1]) =>
                /\ DueAgain(p)
                /\ rows[p].exists => rows[p].next_run_at # NoTime
\* --------------------------------------------------------------------- C29
\* C29: in every state row, whenever last_success_at is set, last_attempt_at
\* is set too and is not earlier than last_success_at: every recorded
\* success, a 200 with a valid pack or a 304, is also recorded as an attempt.
C29_SuccessIsAlsoAnAttempt ==
    \A p \in Pairs :
        (rows[p].exists /\ rows[p].last_success_at # NoTime) =>
            /\ rows[p].last_attempt_at # NoTime
            /\ rows[p].last_attempt_at >= rows[p].last_success_at
\* --------------------------------------------------------------------- C30
\* C30: when two orchestrator runs for the same user interleave, also on a
\* pair that has no state row yet, both complete without an unhandled error
\* and each processes every enabled source: no get_or_create_state call of
\* either run, which the loop over the sources makes unguarded, ever raises.
C30_ConcurrentRunsComplete ==
    \A w \in Workers : ~procs[w].raised
====
